---- MODULE Spec2Model ----
(***************************************************************************)
(* A model of the ES5 proxy of src/server.js: the GET /proxy-es5 handler,  *)
(* its allowlist validation, its cache key derivation, the in-memory LRU   *)
(* cache (lru-cache, max/ttl as configured at src/server.js:58-61), the    *)
(* on-disk cache directory, and the error-handling middleware.             *)
(*                                                                         *)
(* JavaScript strings that the code inspects character by character (the   *)
(* url query parameter, host names, cache keys) are sequences of           *)
(* one-character strings.  Payloads, which the code only passes around,    *)
(* are TLA+ strings.                                                       *)
(***************************************************************************)
EXTENDS Integers, Sequences, FiniteSets, TLC

(***************************************************************************)
(* Characters.                                                             *)
(***************************************************************************)

\* The printable ASCII characters, code points 32..126, in code order (the
\* double quote, the backslash and the backtick are written dq, bsl and bt).
Ascii ==
    <<" ","!","dq","#","$","%","&","'","(",")","*","+",",","-",".","/","0",
      "1","2","3","4","5","6","7","8","9",":",";","<","=",">","?","@","A","B",
      "C","D","E","F","G","H","I","J","K","L","M","N","O","P","Q","R","S","T",
      "U","V","W","X","Y","Z","[","bsl","]","^","_","bt","a","b","c","d","e",
      "f","g","h","i","j","k","l","m","n","o","p","q","r","s","t","u","v","w",
      "x","y","z","{","|","}","~">>

\* The code point of a character (String.prototype.charCodeAt); for ASCII it
\* is also the single byte of its UTF-8 encoding.
charCodeAt(c) == 31 + (CHOOSE i \in 1..Len(Ascii) : Ascii[i] = c)

fromCharCode(n) == Ascii[n - 31]

IsUpper(c) == charCodeAt(c) \in 65..90
IsLower(c) == charCodeAt(c) \in 97..122
IsDigit(c) == charCodeAt(c) \in 48..57
IsAlpha(c) == IsUpper(c) \/ IsLower(c)

\* ASCII lowercase of one character, and of a string.
toLowerChar(c) == IF IsUpper(c) THEN fromCharCode(charCodeAt(c) + 32) ELSE c
toLowerCase(s) == [i \in 1..Len(s) |-> toLowerChar(s[i])]

\* Index of the first (last) position of s that holds a character of cs;
\* 0 when there is none.
IndexOfAny(s, cs) ==
    IF \E i \in 1..Len(s) : s[i] \in cs
    THEN CHOOSE i \in 1..Len(s) : s[i] \in cs /\ \A j \in 1..(i - 1) : s[j] \notin cs
    ELSE 0

LastIndexOf(s, c) ==
    IF \E i \in 1..Len(s) : s[i] = c
    THEN CHOOSE i \in 1..Len(s) : s[i] = c /\ \A j \in (i + 1)..Len(s) : s[j] # c
    ELSE 0

\* s without its leading run of characters of cs.
RECURSIVE SkipLeading(_, _)
SkipLeading(s, cs) ==
    IF Len(s) > 0 /\ s[1] \in cs THEN SkipLeading(Tail(s), cs) ELSE s

(***************************************************************************)
(* The allowlist and URL validation.                                       *)
(***************************************************************************)

www_googletagmanager_com ==
    <<"w","w","w",".","g","o","o","g","l","e","t","a","g","m","a","n","a","g",
      "e","r",".","c","o","m">>
connect_facebook_net ==
    <<"c","o","n","n","e","c","t",".","f","a","c","e","b","o","o","k",".","n",
      "e","t">>
analytics_tiktok_com ==
    <<"a","n","a","l","y","t","i","c","s",".","t","i","k","t","o","k",".","c",
      "o","m">>
www_youtube_com ==
    <<"w","w","w",".","y","o","u","t","u","b","e",".","c","o","m">>
embed_voomly_com ==
    <<"e","m","b","e","d",".","v","o","o","m","l","y",".","c","o","m">>

\* src/server.js:72-78
ALLOWED_HOSTS ==
    { www_googletagmanager_com, connect_facebook_net, analytics_tiktok_com,
      www_youtube_com, embed_voomly_com }

sch_http ==
    <<"h","t","t","p">>
sch_https ==
    <<"h","t","t","p","s">>
sch_ftp ==
    <<"f","t","p">>
sch_ws ==
    <<"w","s">>
sch_wss ==
    <<"w","s","s">>

\* The schemes whose URLs always have a host ("special" schemes of the URL
\* standard, file: left aside).
SpecialSchemes == { sch_http, sch_https, sch_ftp, sch_ws, sch_wss }

\* Characters a host name may not contain.
ForbiddenHostChars == { " ", "<", ">", "[", "]", "^", "|", "%", "bsl" }

ParseFailure == [ok |-> FALSE, hostname |-> <<>>]

\* The host part of an authority "userinfo@host:port": ParseFailure when the
\* port is not a number, the host is empty although the scheme needs one, or
\* the host holds a forbidden character.  The host of a special scheme is
\* lowercased.
ParseAuthority(auth, special) ==
    LET at       == LastIndexOf(auth, "@")
        hostport == SubSeq(auth, at + 1, Len(auth))
        colon    == LastIndexOf(hostport, ":")
        host     == IF colon = 0 THEN hostport ELSE SubSeq(hostport, 1, colon - 1)
        port     == IF colon = 0 THEN <<>>
                    ELSE SubSeq(hostport, colon + 1, Len(hostport))
    IN  IF \E i \in 1..Len(port) : ~IsDigit(port[i]) THEN ParseFailure
        ELSE IF special /\ Len(host) = 0 THEN ParseFailure
        ELSE IF \E i \in 1..Len(host) : host[i] \in ForbiddenHostChars
             THEN ParseFailure
        ELSE [ok |-> TRUE,
              hostname |-> IF special THEN toLowerCase(host) ELSE host]

\* new URL(urlString) without a base, as far as its hostname goes: the
\* scheme is the text before the first ":", it starts with a letter and
\* goes on with letters, digits, "+", "-" or "."; a special scheme is
\* followed by any number of slashes and then the authority, which ends at
\* the first "/", "\", "?" or "#"; any other scheme has an authority only
\* after "//", and an empty hostname otherwise.  A string without a scheme
\* does not parse (there is no base URL).
URL(urlString) ==
    LET colon == IndexOfAny(urlString, {":"})
        scheme == toLowerCase(SubSeq(urlString, 1, colon - 1))
        rest == SubSeq(urlString, colon + 1, Len(urlString))
    IN  IF colon < 2 THEN ParseFailure
        ELSE IF ~IsAlpha(scheme[1]) THEN ParseFailure
        ELSE IF \E i \in 2..Len(scheme) :
                   ~(IsAlpha(scheme[i]) \/ IsDigit(scheme[i])
                     \/ scheme[i] \in {"+", "-", "."})
             THEN ParseFailure
        ELSE IF scheme \in SpecialSchemes
             THEN LET r   == SkipLeading(rest, {"/", "bsl"})
                      end == IndexOfAny(r, {"/", "bsl", "?", "#"})
                      auth == IF end = 0 THEN r ELSE SubSeq(r, 1, end - 1)
                  IN  ParseAuthority(auth, TRUE)
        ELSE IF Len(rest) >= 2 /\ rest[1] = "/" /\ rest[2] = "/"
             THEN LET r   == SubSeq(rest, 3, Len(rest))
                      end == IndexOfAny(r, {"/", "?", "#"})
                      auth == IF end = 0 THEN r ELSE SubSeq(r, 1, end - 1)
                  IN  ParseAuthority(auth, FALSE)
        ELSE [ok |-> TRUE, hostname |-> <<>>]

\* A validation that forgets the allowlist: any string that parses passes.
isAllowedUrl_AnyHost(urlString) == URL(urlString).ok

\* src/server.js:87-94: true iff the string parses as a URL and its hostname
\* is one of ALLOWED_HOSTS (a parse failure is caught and yields false).
isAllowedUrl(urlString) ==
    LET parsed == URL(urlString)
    IN  IF parsed.ok THEN parsed.hostname \in ALLOWED_HOSTS ELSE FALSE

(***************************************************************************)
(* Cache key derivation.                                                   *)
(***************************************************************************)

\* The base64 alphabet, values 0..63.
Base64Alphabet ==
    <<"A","B","C","D","E","F","G","H","I","J","K","L","M","N","O","P","Q","R",
      "S","T","U","V","W","X","Y","Z","a","b","c","d","e","f","g","h","i","j",
      "k","l","m","n","o","p","q","r","s","t","u","v","w","x","y","z","0","1",
      "2","3","4","5","6","7","8","9","+","/">>

\* Buffer.from(string): the UTF-8 bytes of the string (one byte per ASCII
\* character).
BufferFrom(s) == [i \in 1..Len(s) |-> charCodeAt(s[i])]

\* buffer.toString("base64"): three bytes make four characters; a last
\* group of one or two bytes is padded with "=".
RECURSIVE toBase64(_)
toBase64(b) ==
    IF Len(b) = 0 THEN <<>>
    ELSE IF Len(b) = 1
         THEN << Base64Alphabet[(b[1] \div 4) + 1],
                 Base64Alphabet[((b[1] % 4) * 16) + 1], "=", "=" >>
    ELSE IF Len(b) = 2
         THEN << Base64Alphabet[(b[1] \div 4) + 1],
                 Base64Alphabet[((b[1] % 4) * 16) + (b[2] \div 16) + 1],
                 Base64Alphabet[((b[2] % 16) * 4) + 1], "=" >>
    ELSE << Base64Alphabet[(b[1] \div 4) + 1],
            Base64Alphabet[((b[1] % 4) * 16) + (b[2] \div 16) + 1],
            Base64Alphabet[((b[2] % 16) * 4) + (b[3] \div 64) + 1],
            Base64Alphabet[(b[3] % 64) + 1] >>
         \o toBase64(SubSeq(b, 4, Len(b)))

\* src/server.js:113
cacheKeyOf(url) == toBase64(BufferFrom(url))

RECURSIVE Str(_)
\* A sequence of characters as one string.
Str(s) == IF Len(s) = 0 THEN "" ELSE s[1] \o Str(Tail(s))

\* The segments of s between occurrences of sep.
RECURSIVE Split(_, _)
Split(s, sep) ==
    LET i == IndexOfAny(s, {sep})
    IN  IF i = 0 THEN << s >>
        ELSE << SubSeq(s, 1, i - 1) >> \o Split(SubSeq(s, i + 1, Len(s)), sep)

\* src/server.js:114  path.join(CACHE_DIR, cacheKey + ".js"), relative to
\* CACHE_DIR: the directories below CACHE_DIR that the path goes through,
\* and the file name (path.join drops empty segments).
cacheFileOf(cacheKey) ==
    LET segs == SelectSeq(Split(cacheKey \o << ".", "j", "s" >>, "/"),
                          LAMBDA g : Len(g) > 0)
    IN  [dir  |-> [i \in 1..(Len(segs) - 1) |-> Str(segs[i])],
         name |-> Str(segs[Len(segs)])]

(***************************************************************************)
(* The inputs: values of the url query parameter.                          *)
(***************************************************************************)

\* Allowed script URLs.
\* https://www.youtube.com/a.js
U1 ==
    <<"h","t","t","p","s",":","/","/","w","w","w",".","y","o","u","t","u","b",
      "e",".","c","o","m","/","a",".","j","s">>
\* https://embed.voomly.com/b.js
U2 ==
    <<"h","t","t","p","s",":","/","/","e","m","b","e","d",".","v","o","o","m",
      "l","y",".","c","o","m","/","b",".","j","s">>
\* https://connect.facebook.net/c.js
U3 ==
    <<"h","t","t","p","s",":","/","/","c","o","n","n","e","c","t",".","f","a",
      "c","e","b","o","o","k",".","n","e","t","/","c",".","j","s">>
\* https://analytics.tiktok.com/d.js
U4 ==
    <<"h","t","t","p","s",":","/","/","a","n","a","l","y","t","i","c","s",".",
      "t","i","k","t","o","k",".","c","o","m","/","d",".","j","s">>

\* A well-formed URL of a host that is not allowed, and a string that is no
\* URL (it has no scheme).
\* https://evil.example.com/x.js
UEvil ==
    <<"h","t","t","p","s",":","/","/","e","v","i","l",".","e","x","a","m","p",
      "l","e",".","c","o","m","/","x",".","j","s">>
\* www.youtube.com/a.js
UNoScheme ==
    <<"w","w","w",".","y","o","u","t","u","b","e",".","c","o","m","/","a",".",
      "j","s">>

AllowedUrls == { U1, U2, U3, U4 }

\* Allowed URLs chosen for their cache keys: the key of USlash contains a
\* "/" (the last six bits of "b?c" are 63); the keys of Uabc and UabI differ
\* in nothing but the case of their last letter ("...YWJj" and "...YWJJ").
\* https://www.youtube.com/ab?c
USlash ==
    <<"h","t","t","p","s",":","/","/","w","w","w",".","y","o","u","t","u","b",
      "e",".","c","o","m","/","a","b","?","c">>
\* https://www.youtube.com/abc
Uabc ==
    <<"h","t","t","p","s",":","/","/","w","w","w",".","y","o","u","t","u","b",
      "e",".","c","o","m","/","a","b","c">>
\* https://www.youtube.com/abI
UabI ==
    <<"h","t","t","p","s",":","/","/","w","w","w",".","y","o","u","t","u","b",
      "e",".","c","o","m","/","a","b","I">>

KeyUrls == { U1, USlash, Uabc, UabI }
UrlStrings == AllowedUrls \cup KeyUrls \cup { UEvil, UNoScheme, << >> }

\* req.query.url: absent (undefined), or a string (possibly empty).
Undefined == [has |-> FALSE, val |-> << >>]
Queries == { Undefined } \cup { [has |-> TRUE, val |-> u] : u \in UrlStrings }

\* JavaScript truthiness of the query value: undefined and "" are falsy.
Truthy(q) == q.has /\ Len(q.val) > 0

\* The validation and the key derivation, tabulated over the inputs.
allowedTable == [u \in UrlStrings |-> isAllowedUrl(u)]
cacheKeyTable == [u \in UrlStrings |-> Str(cacheKeyOf(u))]
cacheFileTable == [u \in UrlStrings |-> cacheFileOf(cacheKeyOf(u))]

\* The cache file as a file system that ignores the case of names knows it.
foldedFileTable ==
    [u \in UrlStrings |-> cacheFileOf(toLowerCase(cacheKeyOf(u)))]

\* src/server.js:109
Rejected(q) == ~Truthy(q) \/ ~allowedTable[q.val]

(***************************************************************************)
(* The origin and the transform.                                           *)
(***************************************************************************)

\* Bodies the origin may answer with; the last one is not a valid script.
Datas == { "let x = 1;", "let x = 2;", "", "let x = ;" }

\* src/server.js:149  babel.transformAsync(data, BABEL_OPTIONS): the ES5
\* code of a script, or a thrown parse error.
transformAsync(data) ==
    CASE data = "let x = 1;" -> [ok |-> TRUE, code |-> "var x = 1;"]
      [] data = "let x = 2;" -> [ok |-> TRUE, code |-> "var x = 2;"]
      [] data = ""           -> [ok |-> TRUE, code |-> ""]
      [] OTHER               -> [ok |-> FALSE, code |-> ""]

\* Errors are records of the two fields the handlers read: status (0 when
\* the error has none) and message.
BabelError == [status |-> 0, message |-> "unknown: Unexpected token (1:8)"]

\* src/server.js:144-147  what axios.get rejects with: a timeout (after
\* 10 000 ms) or a network failure carries no status; a response with a
\* non-2xx status is rejected with an error whose status is the origin's.
FetchErrors ==
    { [status |-> 0,   message |-> "timeout of 10000ms exceeded"],
      [status |-> 404, message |-> "Request failed with status code 404"],
      [status |-> 503, message |-> "Request failed with status code 503"] }

(***************************************************************************)
(* The disk cache: the files of CACHE_DIR, file name -> content.  The      *)
(* program creates CACHE_DIR itself (src/server.js:64-68) and never a      *)
(* directory below it.                                                     *)
(***************************************************************************)

\* A check that looks for the file outside CACHE_DIR, where it never is.
existsSync_WrongPath(dsk, file) == FALSE

\* src/server.js:128  fs.existsSync(cacheFile)
existsSync(dsk, file) == Len(file.dir) = 0 /\ file.name \in DOMAIN dsk

\* src/server.js:131  fs.readFileSync(cacheFile, "utf-8") of an existing file
\* (the payloads are well-formed text: decoding returns what was encoded).
readFileSync(dsk, file) == dsk[file.name]

\* How a write can end: done; failed before the file was opened (EACCES,
\* EMFILE, ...: nothing changes); failed after it was opened for writing
\* (ENOSPC, EIO: the file is left created or truncated, without the data).
WriteOutcomes == { "ok", "openFailed", "writeFailed" }

WriteError(o) ==
    [status |-> 0,
     message |-> CASE o = "openFailed"  -> "EACCES: permission denied, open"
                   [] o = "writeFailed" -> "ENOSPC: no space left on device, write"
                   [] OTHER -> "ENOENT: no such file or directory, open"]

\* A write that removes the file it could not write.
writeFileSync_UnlinkOnError(dsk, file, content, o) ==
    IF Len(file.dir) > 0
    THEN [disk |-> dsk, threw |-> TRUE, err |-> WriteError("noDirectory")]
    ELSE CASE o = "ok" ->
                [disk |-> [n \in DOMAIN dsk \cup {file.name} |->
                             IF n = file.name THEN content ELSE dsk[n]],
                 threw |-> FALSE, err |-> WriteError(o)]
           [] o = "writeFailed" ->
                [disk |-> [n \in DOMAIN dsk \ {file.name} |-> dsk[n]],
                 threw |-> TRUE, err |-> WriteError(o)]
           [] OTHER -> [disk |-> dsk, threw |-> TRUE, err |-> WriteError(o)]

\* src/server.js:152  fs.writeFileSync(cacheFile, content) with outcome o: the
\* directory of the file must exist, else the open fails with ENOENT whatever
\* o is.  The result is the disk afterwards and whether the call threw.
writeFileSync(dsk, file, content, o) ==
    IF Len(file.dir) > 0
    THEN [disk |-> dsk, threw |-> TRUE, err |-> WriteError("noDirectory")]
    ELSE CASE o = "ok" ->
                [disk |-> [n \in DOMAIN dsk \cup {file.name} |->
                             IF n = file.name THEN content ELSE dsk[n]],
                 threw |-> FALSE, err |-> WriteError(o)]
           [] o = "writeFailed" ->
                [disk |-> [n \in DOMAIN dsk \cup {file.name} |->
                             IF n = file.name THEN "" ELSE dsk[n]],
                 threw |-> TRUE, err |-> WriteError(o)]
           [] OTHER -> [disk |-> dsk, threw |-> TRUE, err |-> WriteError(o)]

(***************************************************************************)
(* The memory cache: an LRUCache (src/server.js:58-61), a sequence of      *)
(* entries [key, value, start] from the least to the most recently used.   *)
(***************************************************************************)

\* src/server.js:59 sets max to 50; the model checks the same policy at a
\* smaller capacity.
max == 2

\* src/server.js:60, in milliseconds
ttl == 1000 * 60 * 10

\* An entry is stale once more than ttl has passed since it was set.
isStale(e, t) == t - e.start > ttl

indexOf(c, k) ==
    IF \E i \in 1..Len(c) : c[i].key = k
    THEN CHOOSE i \in 1..Len(c) : c[i].key = k
    ELSE 0

without(c, i) == SubSeq(c, 1, i - 1) \o SubSeq(c, i + 1, Len(c))

\* A get that returns the value without marking the entry as used.
memCache_get_NoTouch(c, k, t) ==
    LET i == indexOf(c, k)
    IN  IF i = 0 THEN [cache |-> c, found |-> FALSE, value |-> ""]
        ELSE IF isStale(c[i], t)
             THEN [cache |-> without(c, i), found |-> FALSE, value |-> ""]
        ELSE [cache |-> c, found |-> TRUE, value |-> c[i].value]

\* A get that renews the start time of the entry it returns (updateAgeOnGet).
memCache_get_UpdateAge(c, k, t) ==
    LET i == indexOf(c, k)
    IN  IF i = 0 THEN [cache |-> c, found |-> FALSE, value |-> ""]
        ELSE IF isStale(c[i], t)
             THEN [cache |-> without(c, i), found |-> FALSE, value |-> ""]
        ELSE [cache |-> Append(without(c, i), [c[i] EXCEPT !.start = t]),
              found |-> TRUE, value |-> c[i].value]

\* memCache.get(k) at time t: a missing key yields undefined; a stale entry
\* is deleted and yields undefined; otherwise the entry becomes the most
\* recently used and its value is returned (its start time is kept).
memCache_get(c, k, t) ==
    LET i == indexOf(c, k)
    IN  IF i = 0 THEN [cache |-> c, found |-> FALSE, value |-> ""]
        ELSE IF isStale(c[i], t)
             THEN [cache |-> without(c, i), found |-> FALSE, value |-> ""]
        ELSE [cache |-> Append(without(c, i), c[i]),
              found |-> TRUE, value |-> c[i].value]

\* memCache.set(k, v) at time t: an existing entry gets the value and a new
\* start time and becomes the most recently used; a new entry is added as
\* the most recently used, after the least recently used one was evicted
\* if the cache was full.
memCache_set(c, k, v, t) ==
    LET i == indexOf(c, k)
        e == [key |-> k, value |-> v, start |-> t]
    IN  IF i # 0 THEN Append(without(c, i), e)
        ELSE IF Len(c) >= max THEN Append(Tail(c), e)
        ELSE Append(c, e)

VARIABLES
    req,         \* per request slot: where its handler stands, its url, the fetched data
    memCache,    \* the LRUCache
    disk,        \* the files of CACHE_DIR
    now,         \* the clock, in ms
    resp,        \* the response sent last
    firstStored, \* history: cache key -> the payload of its first completed store
    writes,      \* history: file name -> how often writeFileSync changed the file
    recency,     \* history: the cache keys in the order of their last use in memory
    hitAt,       \* history: the key and the time of the last answer from memory
    writer,      \* history: cache key -> the url of the request that wrote it last
    world        \* the clients (which requests they make, how many at a time)
                 \* and the platform

vars ==
    << req, memCache, disk, now, resp, firstStored, writes, recency, hitAt,
       writer, world >>

(***************************************************************************)
(* The request handler.                                                    *)
(***************************************************************************)

\* src/server.js:114  the cache file of an allowed url, as the file system
\* of the platform identifies it: by its name, or by its name without regard
\* to case (the default on macOS and Windows).
cacheFilePath(url) ==
    IF world.foldsCase THEN foldedFileTable[url] ELSE cacheFileTable[url]

\* A lookup that never consults the disk.
lookup_MemoryOnly(c, dsk, url, t) ==
    LET memCached == memCache_get(c, cacheKeyTable[url], t)
    IN  IF memCached.found /\ memCached.value # ""
        THEN [tier |-> "memory", payload |-> memCached.value,
              cache |-> memCached.cache]
        ELSE [tier |-> "miss", payload |-> "", cache |-> memCached.cache]

\* A lookup that answers a disk hit without setting the memory cache.
lookup_NoPromotion(c, dsk, url, t) ==
    LET memCached == memCache_get(c, cacheKeyTable[url], t)
    IN  IF memCached.found /\ memCached.value # ""
        THEN [tier |-> "memory", payload |-> memCached.value,
              cache |-> memCached.cache]
        ELSE IF existsSync(dsk, cacheFilePath(url))
             THEN [tier |-> "disk",
                   payload |-> readFileSync(dsk, cacheFilePath(url)),
                   cache |-> memCached.cache]
        ELSE [tier |-> "miss", payload |-> "", cache |-> memCached.cache]

\* src/server.js:116-138  the lookup in the two tiers for an allowed url at
\* time t: a truthy value from memory is a memory hit; otherwise an existing
\* cache file is read and its content set in memory (a disk hit); otherwise
\* a miss.  The result names the tier, the payload and the memory cache
\* afterwards.
lookup(c, dsk, url, t) ==
    LET cacheKey  == cacheKeyTable[url]
        cacheFile == cacheFilePath(url)
        memCached == memCache_get(c, cacheKey, t)
    IN  IF memCached.found /\ memCached.value # ""
        THEN [tier |-> "memory", payload |-> memCached.value,
              cache |-> memCached.cache]
        ELSE IF existsSync(dsk, cacheFile)
             THEN LET cached == readFileSync(dsk, cacheFile)
                  IN  [tier |-> "disk", payload |-> cached,
                       cache |-> memCache_set(memCached.cache, cacheKey, cached, t)]
        ELSE [tier |-> "miss", payload |-> "", cache |-> memCached.cache]

\* A store that sets the memory cache before it writes the file.
store_MemoryFirst(c, dsk, url, code, t, o) ==
    LET w == writeFileSync(dsk, cacheFilePath(url), code, o)
    IN  [cache |-> memCache_set(c, cacheKeyTable[url], code, t),
         disk |-> w.disk, threw |-> w.threw, err |-> w.err]

\* A store that leaves an existing file alone (the first writer wins).
store_KeepExisting(c, dsk, url, code, t, o) ==
    LET w == IF existsSync(dsk, cacheFilePath(url))
             THEN [disk |-> dsk, threw |-> FALSE, err |-> WriteError(o)]
             ELSE writeFileSync(dsk, cacheFilePath(url), code, o)
    IN  IF w.threw
        THEN [cache |-> c, disk |-> w.disk, threw |-> TRUE, err |-> w.err]
        ELSE [cache |-> memCache_set(c, cacheKeyTable[url], code, t),
              disk |-> w.disk, threw |-> FALSE, err |-> w.err]

\* src/server.js:151-153  persist to disk, then to memory; a write that
\* throws skips the memory cache.
store(c, dsk, url, code, t, o) ==
    LET w == writeFileSync(dsk, cacheFilePath(url), code, o)
    IN  IF w.threw
        THEN [cache |-> c, disk |-> w.disk, threw |-> TRUE, err |-> w.err]
        ELSE [cache |-> memCache_set(c, cacheKeyTable[url], code, t),
              disk |-> w.disk, threw |-> FALSE, err |-> w.err]

\* src/server.js:159-165  the catch block: an error without a status gets
\* 502, one without a message gets the default message.
normalize(err) ==
    [status  |-> IF err.status # 0 THEN err.status ELSE 502,
     message |-> IF err.message # "" THEN err.message
                 ELSE "Failed to fetch or transpile script from remote URL."]

\* src/server.js:181-222  the error-handling middleware: the status and the
\* error text of the response (the errors of this route carry no
\* statusCode).
errorHandler(err) ==
    LET status == IF err.message = "Not allowed by CORS" THEN 403
                  ELSE IF err.status # 0 THEN err.status ELSE 500
    IN  [status |-> status,
         body   |-> IF status = 500 THEN "Internal Server Error"
                    ELSE IF err.message # "" THEN err.message ELSE "Error"]

JS == "application/javascript"
Immutable == "public, max-age=31536000, immutable"

\* Number of requests that can be in flight at once, and how far the clock
\* runs, in steps of TickMs.
NumReqs == 2
MaxTicks == 2
TickMs == ttl

Reqs == 1..NumReqs

Q(u) == [has |-> TRUE, val |-> u]

\* The clients and their environment, in three shapes.  Herd: up to NumReqs
\* requests at a time, all for one script or for something the validation
\* refuses; the origin and the disk may fail in every way and the process
\* may be restarted.  Pair: one request at a time for one of two scripts,
\* with the same failures.  Sequence: one request at a time for any of the
\* allowed scripts; the origin may time out, the disk works and the process
\* keeps running.
Herd ==
    [slots     |-> Reqs,
     queries   |-> { Undefined, Q(<< >>), Q(UNoScheme), Q(UEvil), Q(U1) },
     datas     |-> Datas,
     errors    |-> FetchErrors,
     outcomes  |-> WriteOutcomes,
     restarts  |-> TRUE,
     foldsCase |-> FALSE]
Pair ==
    [slots     |-> {1},
     queries   |-> { Q(UEvil), Q(U1), Q(U2) },
     datas     |-> Datas,
     errors    |-> FetchErrors,
     outcomes  |-> WriteOutcomes,
     restarts  |-> TRUE,
     foldsCase |-> FALSE]
Sequence ==
    [slots     |-> {1},
     queries   |-> { Q(u) : u \in AllowedUrls },
     datas     |-> { "let x = 1;" },
     errors    |-> { e \in FetchErrors : e.status = 0 },
     outcomes  |-> { "ok" },
     restarts  |-> FALSE,
     foldsCase |-> FALSE]
Worlds == { Herd, Pair, Sequence }

\* The clients that probe the key derivation: one request at a time for one
\* of two allowed urls a and b (or for one the validation refuses), on a
\* file system that tells names apart by case (foldsCase = FALSE) or not.
\* The disk works: a write fails only if the file cannot be created at its
\* path.
KeyWorld(a, b, f) ==
    [slots     |-> {1},
     queries   |-> { Q(UEvil), Q(a), Q(b) },
     datas     |-> { "let x = 1;", "let x = 2;", "let x = ;" },
     errors    |-> { e \in FetchErrors : e.status = 0 },
     outcomes  |-> { "ok" },
     restarts  |-> TRUE,
     foldsCase |-> f]
KeyWorlds ==
    { KeyWorld(a, b, f) : a \in KeyUrls, b \in KeyUrls, f \in BOOLEAN }

Idle == [pc |-> "idle", url |-> << >>, data |-> ""]

NoResponse ==
    [query |-> Undefined, status |-> 0, contentType |-> "",
     cacheControl |-> "", body |-> "", tier |-> "", data |-> ""]

\* A script sent from the disk cache without the Cache-Control header.
Script_DiskHitUncached(r, url, body, tier, data) ==
    [query |-> [has |-> TRUE, val |-> url], status |-> 200,
     contentType |-> JS,
     cacheControl |-> IF tier = "disk" THEN "" ELSE Immutable,
     body |-> body, tier |-> tier, data |-> data]

\* res.send of a script: src/server.js:121-124, 134-137, 155-158
Script(r, url, body, tier, data) ==
    [query |-> [has |-> TRUE, val |-> url], status |-> 200,
     contentType |-> JS, cacheControl |-> Immutable, body |-> body,
     tier |-> tier, data |-> data]

\* next(err) after the catch block, answered by the error handler
Failure(r, url, err, tier, data) ==
    LET e == errorHandler(normalize(err))
    IN  [query |-> [has |-> TRUE, val |-> url], status |-> e.status,
         contentType |-> "application/json", cacheControl |-> "",
         body |-> e.body, tier |-> tier, data |-> data]

\* The write counts after a store that took the disk from dsk to dsk2: the
\* store writes at most its own file, and a write that threw before opening
\* the file did not touch it.
Written(w, dsk, dsk2) ==
    LET touched == { n \in DOMAIN dsk2 : n \notin DOMAIN dsk \/ dsk2[n] # dsk[n] }
    IN  [n \in DOMAIN w \cup touched |->
           (IF n \in DOMAIN w THEN w[n] ELSE 0) + (IF n \in touched THEN 1 ELSE 0)]

NoHit == [key |-> "", at |-> 0]

\* The history h with v noted for the key k.
Put(h, k, v) == [x \in DOMAIN h \cup {k} |-> IF x = k THEN v ELSE h[x]]

\* k becomes the most recently used key.
Touch(h, k) == Append(SelectSeq(h, LAMBDA x : x # k), k)

Init ==
    /\ req = [r \in Reqs |-> Idle]
    /\ memCache = << >>
    /\ disk = << >>
    /\ now = 0
    /\ resp = NoResponse
    /\ firstStored = << >>
    /\ writes = << >>
    /\ recency = << >>
    /\ hitAt = NoHit
    /\ writer = << >>
    /\ world \in Worlds

\* src/server.js:107-111  a missing, unparsable or disallowed url is
\* answered 400 at once.
Reject(r, q) ==
    /\ req[r].pc = "idle"
    /\ Rejected(q)
    /\ resp' = [query |-> q, status |-> 400,
                contentType |-> "text/html", cacheControl |-> "",
                body |-> "Invalid or disallowed script URL.",
                tier |-> "rejected", data |-> ""]
    /\ UNCHANGED << req, memCache, disk, now, firstStored, writes, recency, hitAt,
                   writer, world >>

\* src/server.js:116-125  memory hit
MemoryHit(r, q) ==
    /\ req[r].pc = "idle"
    /\ ~Rejected(q)
    /\ LET l == lookup(memCache, disk, q.val, now)
       IN  /\ l.tier = "memory"
           /\ memCache' = l.cache
           /\ resp' = Script(r, q.val, l.payload, "memory", "")
           /\ recency' = Touch(recency, cacheKeyTable[q.val])
           /\ hitAt' = [key |-> cacheKeyTable[q.val], at |-> now]
    /\ UNCHANGED << req, disk, now, firstStored, writes, writer, world >>

\* src/server.js:127-138  disk hit
DiskHit(r, q) ==
    /\ req[r].pc = "idle"
    /\ ~Rejected(q)
    /\ LET l == lookup(memCache, disk, q.val, now)
       IN  /\ l.tier = "disk"
           /\ memCache' = l.cache
           /\ resp' = Script(r, q.val, l.payload, "disk", "")
           /\ recency' = Touch(recency, cacheKeyTable[q.val])
    /\ UNCHANGED << req, disk, now, firstStored, writes, hitAt, writer, world >>

\* src/server.js:140-147  miss in both tiers: axios.get is called and the
\* handler waits for it.
Miss(r, q) ==
    /\ req[r].pc = "idle"
    /\ ~Rejected(q)
    /\ LET l == lookup(memCache, disk, q.val, now)
       IN  /\ l.tier = "miss"
           /\ memCache' = l.cache
    /\ req' = [req EXCEPT ![r] = [pc |-> "fetching", url |-> q.val, data |-> ""]]
    /\ UNCHANGED << disk, now, resp, firstStored, writes, recency, hitAt, writer,
                   world >>

\* src/server.js:144-149  axios.get resolves with the data d: babel is
\* called and the handler waits for it.
FetchResolve(r, d) ==
    /\ req[r].pc = "fetching"
    /\ req' = [req EXCEPT ![r].pc = "transforming", ![r].data = d]
    /\ UNCHANGED << memCache, disk, now, resp, firstStored, writes, recency, hitAt,
                   writer, world >>

\* A handler that remembers a failed fetch as an empty script in memory.
FetchReject_CachesEmpty(r, err) ==
    /\ req[r].pc = "fetching"
    /\ resp' = Failure(r, req[r].url, err, "fetchFailed", "")
    /\ req' = [req EXCEPT ![r] = Idle]
    /\ memCache' = memCache_set(memCache, cacheKeyTable[req[r].url], "", now)
    /\ UNCHANGED << disk, now, firstStored, writes, recency, hitAt, writer, world >>

\* src/server.js:144, 159-166  axios.get rejects with err
FetchReject(r, err) ==
    /\ req[r].pc = "fetching"
    /\ resp' = Failure(r, req[r].url, err, "fetchFailed", "")
    /\ req' = [req EXCEPT ![r] = Idle]
    /\ UNCHANGED << memCache, disk, now, firstStored, writes, recency, hitAt,
                   writer, world >>

\* A handler that fetches the script again when its transform fails.
TransformReject_Refetch(r) ==
    /\ req[r].pc = "transforming"
    /\ ~transformAsync(req[r].data).ok
    /\ req' = [req EXCEPT ![r].pc = "fetching", ![r].data = ""]
    /\ UNCHANGED << memCache, disk, now, resp, firstStored, writes, recency,
                   hitAt, writer, world >>

\* src/server.js:149, 159-166  babel.transformAsync rejects
TransformReject(r) ==
    /\ req[r].pc = "transforming"
    /\ ~transformAsync(req[r].data).ok
    /\ resp' = Failure(r, req[r].url, BabelError, "transformFailed", req[r].data)
    /\ req' = [req EXCEPT ![r] = Idle]
    /\ UNCHANGED << memCache, disk, now, firstStored, writes, recency, hitAt,
                   writer, world >>

\* A handler that stores only while no other request is in flight.
Stored_Exclusive(r) ==
    /\ req[r].pc = "transforming"
    /\ transformAsync(req[r].data).ok
    /\ \A r2 \in Reqs \ {r} : req[r2].pc = "idle"
    /\ LET code == transformAsync(req[r].data).code
           key  == cacheKeyTable[req[r].url]
           s    == store(memCache, disk, req[r].url, code, now, "ok")
       IN  /\ ~s.threw
           /\ memCache' = s.cache
           /\ disk' = s.disk
           /\ resp' = Script(r, req[r].url, code, "stored", req[r].data)
           /\ firstStored' = IF key \in DOMAIN firstStored THEN firstStored
                             ELSE Put(firstStored, key, code)
           /\ writes' = Written(writes, disk, s.disk)
           /\ recency' = Touch(recency, key)
           /\ writer' = Put(writer, key, req[r].url)
    /\ req' = [req EXCEPT ![r] = Idle]
    /\ UNCHANGED << now, hitAt, world >>

\* src/server.js:149-158  babel.transformAsync resolves and the store
\* succeeds: the code is sent.
Stored(r) ==
    /\ req[r].pc = "transforming"
    /\ transformAsync(req[r].data).ok
    /\ LET code == transformAsync(req[r].data).code
           key  == cacheKeyTable[req[r].url]
           s    == store(memCache, disk, req[r].url, code, now, "ok")
       IN  /\ ~s.threw
           /\ memCache' = s.cache
           /\ disk' = s.disk
           /\ resp' = Script(r, req[r].url, code, "stored", req[r].data)
           /\ firstStored' = IF key \in DOMAIN firstStored THEN firstStored
                             ELSE [k \in DOMAIN firstStored \cup {key} |->
                                     IF k = key THEN code ELSE firstStored[k]]
           /\ writes' = Written(writes, disk, s.disk)
           /\ recency' = Touch(recency, key)
           /\ writer' = Put(writer, key, req[r].url)
    /\ req' = [req EXCEPT ![r] = Idle]
    /\ UNCHANGED << now, hitAt, world >>

\* src/server.js:149-153, 159-166  babel.transformAsync resolves and
\* fs.writeFileSync throws
StoreFailed(r, o) ==
    /\ req[r].pc = "transforming"
    /\ transformAsync(req[r].data).ok
    /\ LET code == transformAsync(req[r].data).code
           s    == store(memCache, disk, req[r].url, code, now, o)
       IN  /\ s.threw
           /\ memCache' = s.cache
           /\ disk' = s.disk
           /\ writes' = Written(writes, disk, s.disk)
           /\ resp' = Failure(r, req[r].url, s.err, "storeFailed", req[r].data)
           /\ writer' = IF s.disk = disk THEN writer
                         ELSE Put(writer, cacheKeyTable[req[r].url], req[r].url)
    /\ req' = [req EXCEPT ![r] = Idle]
    /\ UNCHANGED << now, firstStored, recency, hitAt, world >>

\* Time passes.
Tick ==
    /\ now + TickMs <= MaxTicks * TickMs
    /\ now' = now + TickMs
    /\ UNCHANGED << req, memCache, disk, resp, firstStored, writes, recency, hitAt,
                   writer, world >>

\* The process is restarted (src/server.js:58-68): the memory cache is new,
\* the requests in flight are gone and nothing was sent yet; the cache
\* directory is as it was.
Restart ==
    /\ world.restarts
    /\ memCache' = << >>
    /\ req' = [r \in Reqs |-> Idle]
    /\ resp' = NoResponse
    /\ recency' = << >>
    /\ hitAt' = NoHit
    /\ UNCHANGED << disk, now, firstStored, writes, writer, world >>

\* The steps of the handler, for the requests of the clients.
Handle ==
    \/ \E r \in world.slots, q \in world.queries : Reject(r, q)
    \/ \E r \in world.slots, q \in world.queries : MemoryHit(r, q)
    \/ \E r \in world.slots, q \in world.queries : DiskHit(r, q)
    \/ \E r \in world.slots, q \in world.queries : Miss(r, q)
    \/ \E r \in world.slots, d \in world.datas : FetchResolve(r, d)
    \/ \E r \in world.slots, err \in world.errors : FetchReject(r, err)
    \/ \E r \in world.slots : TransformReject(r)
    \/ \E r \in world.slots : Stored(r)
    \/ \E r \in world.slots, o \in world.outcomes : StoreFailed(r, o)
    \/ Tick

Next == Handle \/ Restart

Spec == Init /\ [][Next]_vars

\* The next step of a request that waits for the origin or for the
\* transform: axios.get settles (with data, an error status or its timeout),
\* or babel.transformAsync settles and the handler runs to its response.
Finish(r) ==
    \/ \E d \in world.datas : FetchResolve(r, d)
    \/ \E err \in world.errors : FetchReject(r, err)
    \/ TransformReject(r)
    \/ Stored(r)
    \/ \E o \in world.outcomes : StoreFailed(r, o)

\* The clients of a process that keeps running: up to two requests at a
\* time for two scripts (the cache file of one of them cannot be created)
\* on a disk that works.  The fetch and the transform of the request in
\* slot f settle in the end; those of the other requests may take for ever.
Crowd(f) ==
    [slots     |-> { 1, 2 },
     queries   |-> { Q(UEvil), Q(U1), Q(USlash) },
     datas     |-> { "let x = 1;", "let x = ;" },
     errors    |-> { e \in FetchErrors : e.status = 0 },
     outcomes  |-> { "ok" },
     restarts  |-> FALSE,
     foldsCase |-> FALSE,
     fair      |-> f]
LiveWorlds == { Crowd(f) : f \in { 1, 2 } }

LiveInit ==
    /\ req = [r \in Reqs |-> Idle]
    /\ memCache = << >>
    /\ disk = << >>
    /\ now = 0
    /\ resp = NoResponse
    /\ firstStored = << >>
    /\ writes = << >>
    /\ recency = << >>
    /\ hitAt = NoHit
    /\ writer = << >>
    /\ world \in LiveWorlds

LiveSpec == LiveInit /\ [][Handle]_vars /\ WF_vars(Finish(world.fair))

\* The same program, serving the clients that probe the key derivation.
KeyInit ==
    /\ req = [r \in Reqs |-> Idle]
    /\ memCache = << >>
    /\ disk = << >>
    /\ now = 0
    /\ resp = NoResponse
    /\ firstStored = << >>
    /\ writes = << >>
    /\ recency = << >>
    /\ hitAt = NoHit
    /\ writer = << >>
    /\ world \in KeyWorlds

KeySpec == KeyInit /\ [][Next]_vars

(***************************************************************************)
(* Vocabulary of the properties.                                           *)
(***************************************************************************)

KeyOf(u) == cacheKeyTable[u]
FileOf(u) == cacheFilePath(u).name

\* The key has an entry in the memory cache that has not expired at time t.
Live(c, k, t) == \E i \in 1..Len(c) : c[i].key = k /\ ~isStale(c[i], t)

\* The value the memory cache holds for a key it has an entry of.
ValueOf(c, k) == c[indexOf(c, k)].value

\* The inputs the validation has to refuse: no url, an empty one, one
\* without a scheme, one of a host that is not on the allowlist.
BadQueries == { Undefined, Q(<< >>), Q(UNoScheme), Q(UEvil) }

\* Steps, as seen from the state before and after.  A request for u is
\* answered at once (from a cache, or refused) ...
Answered(q) ==
    /\ req' = req
    /\ now' = now
    /\ resp' # NoResponse
    /\ resp'.query = q
    /\ resp' # resp \/ memCache' # memCache
\* ... request r starts waiting for the origin ...
StartsFetch(r) == req[r].pc = "idle" /\ req'[r].pc = "fetching"
\* ... request r gets its data from the origin ...
Fetched(r) == req[r].pc = "fetching" /\ req'[r].pc = "transforming"
\* ... request r, which was waiting, is answered.
Completes(r) ==
    /\ req[r].pc \in { "fetching", "transforming" }
    /\ req'[r].pc = "idle"
    /\ resp' # NoResponse

(***************************************************************************)
(* C1.  A request whose url is missing, does not parse or names a host     *)
(* outside the allowlist is answered 400; it starts no fetch and no        *)
(* transform and leaves the memory cache and the disk as they were.        *)
(***************************************************************************)
C1_RejectedUntouched ==
    [][ /\ \A q \in BadQueries :
             Answered(q) =>
                /\ resp'.status = 400
                /\ memCache' = memCache
                /\ disk' = disk
        /\ \A r \in Reqs :
             req'[r].pc # "idle" => Q(req'[r].url) \notin BadQueries
      ]_vars

\* A disallowed url was refused while the cache held an entry.
C1_Witness ==
    /\ resp.query = Q(UEvil)
    /\ resp.status = 400
    /\ Len(memCache) > 0
    /\ DOMAIN disk # {}

(***************************************************************************)
(* C2.  Once a url was stored, every later request for it, answered from   *)
(* memory or from disk, gets the payload of that first store.              *)
(***************************************************************************)
C2_SameAsFirstStored ==
    (/\ resp.tier \in { "memory", "disk" }
     /\ KeyOf(resp.query.val) \in DOMAIN firstStored)
        => resp.body = firstStored[KeyOf(resp.query.val)]

InFlight(n) ==
    { r \in world.slots : req[r].pc # "idle" /\ FileOf(req[r].url) = n }

C4_NoFetchAfterStore ==
    [][ \A r \in Reqs :
          StartsFetch(r) => KeyOf(req'[r].url) \notin DOMAIN firstStored
      ]_vars

\* A stored url was requested again after its memory entry had expired, and
\* was answered from disk.
C4_Witness ==
    /\ resp.tier = "disk"
    /\ KeyOf(resp.query.val) \in DOMAIN firstStored
    /\ now > ttl
    /\ \A r \in Reqs : req[r].pc = "idle"

(***************************************************************************)
(* C5.  A failed fetch or a failed transform is answered with a 5xx        *)
(* status, never with a 4xx one.                                           *)
(***************************************************************************)
C5_GatewayError ==
    resp.tier \in { "fetchFailed", "transformFailed" }
        => resp.status \in 500..599

(***************************************************************************)
(* C6.  A request whose fetch or transform fails leaves both tiers as they *)
(* were, at every step it takes: when it misses, when its data arrives and *)
(* when it fails.                                                          *)
(***************************************************************************)
C6_FailureLeavesCache ==
    [][ \A r \in Reqs :
          (\/ StartsFetch(r)
           \/ Fetched(r)
           \/ Completes(r) /\ resp'.tier \in { "fetchFailed", "transformFailed" })
             => memCache' = memCache /\ disk' = disk
      ]_vars

\* A fetch of U1 failed while U2 was cached: U1 is in neither tier.
C6_Witness ==
    /\ resp.tier = "fetchFailed"
    /\ resp.query = Q(U1)
    /\ FileOf(U1) \notin DOMAIN disk
    /\ indexOf(memCache, KeyOf(U1)) = 0
    /\ FileOf(U2) \in DOMAIN disk
    /\ Live(memCache, KeyOf(U2), now)

(***************************************************************************)
(* C7.  When the disk write of a store fails, the request is answered with *)
(* an error (502) and the memory cache is as it was.                       *)
(***************************************************************************)
C7_FailedWriteSkipsMemory ==
    [][ \A r \in Reqs :
          (Completes(r) /\ resp'.tier = "storeFailed")
             => resp'.status = 502 /\ memCache' = memCache
      ]_vars

\* A write failed after the file was opened: the request got 502 and
\* memory has no entry for the key.
C7_Witness ==
    /\ resp.tier = "storeFailed"
    /\ resp.status = 502
    /\ FileOf(resp.query.val) \in DOMAIN disk
    /\ indexOf(memCache, KeyOf(resp.query.val)) = 0

(***************************************************************************)
(* C8.  Disk promotion: a request for a key that has a cache file and no   *)
(* live memory entry starts no fetch; it is answered 200 with the content  *)
(* of the file, and afterwards memory holds that content under the key.    *)
(***************************************************************************)
C8_DiskPromotion ==
    [][ \A u \in AllowedUrls :
          (FileOf(u) \in DOMAIN disk /\ ~Live(memCache, KeyOf(u), now)) =>
             /\ \A r \in Reqs : StartsFetch(r) => req'[r].url # u
             /\ Answered(Q(u)) =>
                  /\ resp'.status = 200
                  /\ resp'.tier = "disk"
                  /\ resp'.body = disk[FileOf(u)]
                  /\ disk' = disk
                  /\ Live(memCache', KeyOf(u), now')
                  /\ ValueOf(memCache', KeyOf(u)) = disk[FileOf(u)]
      ]_vars

\* A stored script whose memory entry was gone (expired, or lost in a
\* restart) was answered from disk later on and is in memory again.
C8_Witness ==
    /\ resp.tier = "disk"
    /\ resp.body = "var x = 1;"
    /\ Len(memCache) = 1
    /\ memCache[1].value = "var x = 1;"
    /\ memCache[1].start > 0

(***************************************************************************)
(* C9.  Concurrent misses of one key are not merged: each request that     *)
(* stores is answered with the code of its own data, and right after its   *)
(* store both tiers hold that code, whatever an earlier request stored.    *)
(***************************************************************************)
C9_LastWriterWins ==
    [][ \A r \in Reqs :
          (Completes(r) /\ resp'.tier = "stored") =>
             LET code == transformAsync(req[r].data).code
                 u    == req[r].url
             IN  /\ resp'.status = 200
                 /\ resp'.body = code
                 /\ FileOf(u) \in DOMAIN disk'
                 /\ disk'[FileOf(u)] = code
                 /\ Live(memCache', KeyOf(u), now')
                 /\ ValueOf(memCache', KeyOf(u)) = code
      ]_vars

\* Two requests missed the same key; the second store replaced the payload
\* of the first in both tiers.
C9_Witness ==
    /\ resp.tier = "stored"
    /\ resp.body = "var x = 2;"
    /\ KeyOf(U1) \in DOMAIN firstStored
    /\ firstStored[KeyOf(U1)] = "var x = 1;"
    /\ writes[FileOf(U1)] = 2
    /\ disk[FileOf(U1)] = "var x = 2;"
    /\ indexOf(memCache, KeyOf(U1)) # 0
    /\ ValueOf(memCache, KeyOf(U1)) = "var x = 2;"

\* The keys the memory cache holds.
Keys(c) == { c[i].key : i \in 1..Len(c) }

\* The key of h (keys in the order of their last use) used longest ago among
\* those of the set ks.
Oldest(h, ks) ==
    h[CHOOSE i \in 1..Len(h) :
        h[i] \in ks /\ \A j \in 1..(i - 1) : h[j] \notin ks]

(***************************************************************************)
(* C10.  The memory cache never holds more than max entries.  When a new   *)
(* key is set in a full cache, exactly the key used longest ago (a memory  *)
(* hit and a set both count as a use) leaves it.  A key that was in memory *)
(* and is no longer still has its file, and no request for it starts a     *)
(* fetch.                                                                  *)
(***************************************************************************)
C10_Capacity ==
    [][ /\ Len(memCache') <= max
        /\ (Len(memCache) = max /\ Keys(memCache') \ Keys(memCache) # {}) =>
              Keys(memCache) \ Keys(memCache')
                  = { Oldest(recency, Keys(memCache)) }
        /\ \A i \in 1..Len(recency') :
              recency'[i] \notin Keys(memCache') =>
                 /\ \E u \in AllowedUrls :
                       KeyOf(u) = recency'[i] /\ FileOf(u) \in DOMAIN disk'
                 /\ \A r \in Reqs :
                       StartsFetch(r) => KeyOf(req'[r].url) # recency'[i]
      ]_vars

\* With the cache full, a key that had been evicted (no entry has expired
\* yet and the process was not restarted) was answered from disk.
C10_Witness ==
    /\ ~world.restarts
    /\ now = 0
    /\ resp.tier = "disk"
    /\ Len(memCache) = max
    /\ Len(recency) > max

\* The start time of the entry the memory cache holds for a key.
StartOf(c, k) == c[indexOf(c, k)].start

(***************************************************************************)
(* C11.  Expiry.  An entry of the memory cache that was set more than ttl  *)
(* ago is not answered from memory, whether the cache is full or not: a    *)
(* request for its url starts no fetch, is answered with the content of    *)
(* the cache file (a disk hit), and afterwards the entry holds that        *)
(* content with the time of this request as its start.  An answer from     *)
(* memory leaves the start time of the entry as it was, so reading an      *)
(* entry does not make it live longer.                                     *)
(***************************************************************************)
C11_Expiry ==
    [][ \A u \in AllowedUrls :
          /\ (/\ indexOf(memCache, KeyOf(u)) # 0
              /\ now - StartOf(memCache, KeyOf(u)) > ttl) =>
                /\ \A r \in Reqs : StartsFetch(r) => req'[r].url # u
                /\ Answered(Q(u)) =>
                     /\ resp'.tier = "disk"
                     /\ resp'.status = 200
                     /\ resp'.body = disk[FileOf(u)]
                     /\ indexOf(memCache', KeyOf(u)) # 0
                     /\ StartOf(memCache', KeyOf(u)) = now'
                     /\ ValueOf(memCache', KeyOf(u)) = disk[FileOf(u)]
          /\ (Answered(Q(u)) /\ resp'.tier = "memory") =>
                /\ indexOf(memCache, KeyOf(u)) # 0
                /\ now - StartOf(memCache, KeyOf(u)) <= ttl
                /\ StartOf(memCache', KeyOf(u)) = StartOf(memCache, KeyOf(u))
      ]_vars

\* The process kept running and nothing was evicted; a script stored at 0
\* was answered from memory at ttl, and at 2 * ttl from disk: its entry
\* starts anew.
C11_Witness ==
    /\ ~world.restarts
    /\ Len(recency) <= max
    /\ Len(memCache) < max
    /\ resp.tier = "disk"
    /\ resp.query = Q(U1)
    /\ now = 2 * ttl
    /\ hitAt = [key |-> KeyOf(U1), at |-> ttl]
    /\ indexOf(memCache, KeyOf(U1)) # 0
    /\ StartOf(memCache, KeyOf(U1)) = now

(***************************************************************************)
(* C12.  The cache key of every validated url is a single path segment:    *)
(* the cache file is a direct child of the cache directory, and on a disk  *)
(* that works the store of a fetched and transformed script creates it     *)
(* (the request is answered with the stored code, never with a failed      *)
(* store).                                                                 *)
(***************************************************************************)
C12_StoreCreatesFile ==
    (/\ world.outcomes = { "ok" }
     /\ resp.tier \in { "stored", "storeFailed" })
        => /\ Len(cacheFilePath(resp.query.val).dir) = 0
           /\ resp.tier = "stored"
           /\ FileOf(resp.query.val) \in DOMAIN disk

\* The urls the clients ask for that pass the validation.
Validated == { q.val : q \in { x \in world.queries : ~Rejected(x) } }

(***************************************************************************)
(* C13.  The key derivation is free of collisions: two distinct validated  *)
(* urls have distinct cache keys, and a request answered from memory or    *)
(* from disk gets a payload that a request for the same url stored.        *)
(***************************************************************************)
C13_NoForeignPayload ==
    /\ \A a \in Validated, b \in Validated : a # b => KeyOf(a) # KeyOf(b)
    /\ resp.tier \in { "memory", "disk" } =>
          /\ KeyOf(resp.query.val) \in DOMAIN writer
          /\ writer[KeyOf(resp.query.val)] = resp.query.val

(***************************************************************************)
(* C14.  Every 200 response of the route is a script sent from memory,     *)
(* from disk or after a store, and all three carry the same headers:       *)
(* Content-Type application/javascript and Cache-Control "public,          *)
(* max-age=31536000, immutable".  The body is the payload: the value of    *)
(* the memory entry, the content of the cache file, or the code just       *)
(* stored, which is also what memory holds for the key afterwards.         *)
(***************************************************************************)
C14_SameMetadata ==
    [][ resp' # resp =>
          /\ resp'.status = 200 <=> resp'.tier \in { "memory", "disk", "stored" }
          /\ resp'.status = 200 =>
                LET u == resp'.query.val
                IN  /\ resp'.contentType = JS
                    /\ resp'.cacheControl = Immutable
                    /\ resp'.tier = "memory" => resp'.body = ValueOf(memCache, KeyOf(u))
                    /\ resp'.tier = "disk" => resp'.body = disk[FileOf(u)]
                    /\ resp'.tier = "stored" =>
                          /\ resp'.body = transformAsync(resp'.data).code
                          /\ resp'.body = disk'[FileOf(u)]
                    /\ resp'.body = ValueOf(memCache', KeyOf(u))
      ]_vars

\* A script that was stored, then answered from memory, is answered from
\* disk with the headers of a script.
C14_Witness ==
    /\ resp.tier = "disk"
    /\ resp.status = 200
    /\ resp.contentType = "application/javascript"
    /\ resp.cacheControl = "public, max-age=31536000, immutable"
    /\ resp.body = "var x = 1;"
    /\ hitAt.key = KeyOf(resp.query.val)
    /\ KeyOf(resp.query.val) \in DOMAIN firstStored

(***************************************************************************)
(* C15.  Tier consistency: every key with a live entry in memory has a     *)
(* cache file, and the value in memory is the content of the file.         *)
(***************************************************************************)
C15_TiersConsistent ==
    \A u \in AllowedUrls \cup KeyUrls :
        Live(memCache, KeyOf(u), now) =>
            /\ FileOf(u) \in DOMAIN disk
            /\ disk[FileOf(u)] = ValueOf(memCache, KeyOf(u))

(***************************************************************************)
(* C16.  Lookup order: a request whose key has a live entry in memory is   *)
(* answered from memory with the value of the entry, whatever the value    *)
(* is, without the disk being consulted; a request answered from disk      *)
(* found no live entry in memory.                                          *)
(***************************************************************************)
C16_MemoryFirst ==
    [][ \A u \in AllowedUrls :
          (Live(memCache, KeyOf(u), now) /\ Answered(Q(u))) =>
             /\ resp'.tier = "memory"
             /\ resp'.body = ValueOf(memCache, KeyOf(u))
      ]_vars

\* The lookup of a request for u finds nothing to answer with: memory has
\* no live entry with a truthy value and there is no cache file.
MissesBoth(u) ==
    /\ ~(Live(memCache, KeyOf(u), now) /\ ValueOf(memCache, KeyOf(u)) # "")
    /\ FileOf(u) \notin DOMAIN disk

\* The process was restarted: the requests in flight are gone.
Restarted ==
    /\ world.restarts
    /\ resp' = NoResponse
    /\ \A r \in Reqs : req'[r] = Idle

C18_EventuallyAnswered ==
    \A r \in { 1, 2 } :
        (world.fair = r /\ req[r].pc # "idle") ~> (req[r].pc = "idle")

\* The request in slot 1 was answered with its stored code while the
\* request in slot 2, which had missed the same url, still waits for the
\* origin.
C18_Witness ==
    /\ world.fair = 1
    /\ req[1].pc = "idle"
    /\ resp.tier = "stored"
    /\ resp.query = Q(U1)
    /\ req[2].pc = "fetching"
    /\ req[2].url = U1

(***************************************************************************)
(* C19.  The program never removes a cache file: in every step, a          *)
(* restart included, the files on disk before are on disk after.  The      *)
(* disk changes only when a request that transformed its script stores or  *)
(* fails to store, and then only in the file of that request.  A           *)
(* rejection, a memory hit, a disk hit, the start of a fetch, a failed     *)
(* fetch and a failed transform leave the disk exactly as it was, and a    *)
(* key that leaves memory (evicted, or dropped in a restart) keeps its     *)
(* file as it was.                                                         *)
(***************************************************************************)
C19_DiskOnlyGrows ==
    [][ /\ DOMAIN disk \subseteq DOMAIN disk'
        /\ disk' # disk =>
              \E r \in Reqs :
                  /\ Completes(r)
                  /\ req[r].pc = "transforming"
                  /\ resp'.tier \in { "stored", "storeFailed" }
                  /\ \A n \in DOMAIN disk :
                        n # FileOf(req[r].url) => disk'[n] = disk[n]
        /\ \A u \in AllowedUrls :
              KeyOf(u) \in Keys(memCache) \ Keys(memCache') =>
                 /\ FileOf(u) \in DOMAIN disk'
                 /\ disk'[FileOf(u)] = disk[FileOf(u)]
        /\ (resp' # resp /\ resp'.tier \in { "rejected", "memory", "disk" })
              => disk' = disk
      ]_vars

\* More scripts are on disk than memory can hold: entries were evicted
\* from memory, an entry has expired, and every file is still there.
C19_Witness ==
    /\ Cardinality(DOMAIN disk) > max
    /\ Len(memCache) = max
    /\ \E i \in 1..Len(memCache) : isStale(memCache[i], now)
    /\ resp.tier = "disk"

====
